---- MODULE Spec2Model ----
(***************************************************************************)
(* Order pipeline: SQS queue -> MessageWorker.run -> process_order ->      *)
(* Redis aggregates, and the FastAPI read path (get_top_users).            *)
(*                                                                         *)
(* Money is counted in cents (integers).  Item prices are whole dollars,   *)
(* so products and sums of Python floats are exact; a reported order_value *)
(* with cents is the double nearest to it, and RoundErr gives how far off  *)
(* that double is.  Redis floats are not modelled beyond that.  A calendar *)
(* date is the tuple <<year, month, day>>, which stands for the text       *)
(* "YYYY-MM-DD" used in the Redis keys.                                    *)
(***************************************************************************)
EXTENDS Integers, Sequences, FiniteSets, TLC

\* ------------------------------------------------------------------ bounds
NumWorkers == 2
NumMsgs == 2
MaxFaults == 2
NumReaders == 2
MaxOrders == 2
FirstYear == 2019
LastYear == 2026

Workers == 1..NumWorkers
Msgs == 1..NumMsgs
Readers == 1..NumReaders

\* ------------------------------------------------------- program constants
MaxNumberOfMessages == 1
Tolerance == 1

\* ------------------------------------------------------------- JSON values
Absent == [t |-> "absent"]
Null == [t |-> "null"]
Str(s) == [t |-> "str", s |-> s]
Num(n) == [t |-> "num", n |-> n]
Bool(b) == [t |-> "bool", b |-> b]
List(l) == [t |-> "list", l |-> l]
Item(q, p) == [quantity |-> q, price_per_unit |-> p]
\* "YYYY-MM-DDTHH:MM:SSZ": the text as its segments between the 'T's
Stamp(date) == [t |-> "str", s |-> <<date, "10:00:00Z">>]

Order(oid, uid, ts, val, items) ==
    [json |-> TRUE, order_id |-> oid, user_id |-> uid, order_timestamp |-> ts,
     order_value |-> val, items |-> items]

D1 == <<2024, 1, 1>>
D2 == <<2024, 1, 2>>
D3 == <<2024, 1, 8>>

\* The message bodies a producer may have put on the queue.
Payloads == <<
    \* 1, 2: well-formed orders of U1 on D1
    Order(Str("O1"), Str("U1"), Stamp(D1), Num(100), List(<<Item(Num(1), Num(100))>>)),
    Order(Str("O2"), Str("U1"), Stamp(D1), Num(200), List(<<Item(Num(2), Num(100))>>)),
    \* 3: U2 on D2, reported value off by more than the tolerance (corrected)
    Order(Str("O3"), Str("U2"), Stamp(D2), Num(500), List(<<Item(Num(3), Num(100))>>)),
    \* 4: user_id missing
    Order(Str("O4"), Absent, Stamp(D1), Num(100), List(<<Item(Num(1), Num(100))>>)),
    \* 5: no order_timestamp
    Order(Str("O5"), Str("U2"), Absent, Num(100), List(<<Item(Num(1), Num(100))>>)),
    \* 6: items is null
    Order(Str("O6"), Str("U1"), Stamp(D1), Num(100), Null),
    \* 7: not JSON
    [json |-> FALSE],
    \* 8: a refund-like order of U1 on D1: negative quantity and value, consistent
    Order(Str("O8"), Str("U1"), Stamp(D1), Num(-100), List(<<Item(Num(-1), Num(100))>>))
>>

Bodies == 1..Len(Payloads)
Users == {"U1", "U2"}
OrderDates == {D1, D2, D3}

\* Lexicographic rank of a member name (Redis breaks score ties by it).
LexRank(u) == IF u = "U1" THEN 1 ELSE 2

\* ------------------------------------------------------------ process_order
RequiredFields == <<"user_id", "order_id", "order_value">>

FieldOf(o, f) ==
    CASE f = "user_id" -> o.user_id
      [] f = "order_id" -> o.order_id
      [] f = "order_value" -> o.order_value

Blank(s) == s \in {"", " "}

ExpectedType(f) == IF f = "order_value" THEN "num" ELSE "str"

\* isinstance(v, expected_type): bool is a subclass of int
IsInstance(v, expected) == v.t = expected \/ (expected = "num" /\ v.t = "bool")

\* The error the loop over required_fields appends for one field, or <<>>.
FieldErrors(o, f) ==
    LET v == FieldOf(o, f) IN
    IF v.t = "absent" THEN <<[kind |-> "Missing", field |-> f]>>
    ELSE IF v.t = "null" \/ (v.t = "str" /\ Blank(v.s))
        THEN <<[kind |-> "Empty", field |-> f]>>
    ELSE IF ~IsInstance(v, ExpectedType(f)) THEN <<[kind |-> "InvalidType", field |-> f]>>
    ELSE <<>>

RECURSIVE ValidateFields(_, _)
ValidateFields(o, i) ==
    IF i > Len(RequiredFields) THEN <<>>
    ELSE FieldErrors(o, RequiredFields[i]) \o ValidateFields(o, i + 1)

\* item.get(k, 0): the default applies only when the key is absent
ItemGet(v) == IF v.t = "absent" THEN Num(0) ELSE v

ItemUsable(it) == ItemGet(it.quantity).t = "num" /\ ItemGet(it.price_per_unit).t = "num"

RECURSIVE SumItems(_)
SumItems(l) ==
    IF l = <<>> THEN 0
    ELSE ItemGet(Head(l).quantity).n * ItemGet(Head(l).price_per_unit).n + SumItems(Tail(l))

ItemsOf(o) == IF o.items.t = "absent" THEN List(<<>>) ELSE o.items

\* sum(...) raises TypeError when items is not iterable or an operand is None
TotalRaises(o) ==
    \/ ItemsOf(o).t # "list"
    \/ \E i \in 1..Len(ItemsOf(o).l) : ~ItemUsable(ItemsOf(o).l[i])

Abs(x) == IF x < 0 THEN -x ELSE x

\* float(order_data["order_value"]), in cents: float(True) is 1.0
Reported(v) == IF v.t = "bool" THEN (IF v.b THEN 100 ELSE 0) ELSE v.n

\* How far the double nearest to c cents lies from c / 100, in units of 1e-20
\* (truncated).  Whole dollars are exact.
RoundErr(c) ==
    IF c % 100 = 0 THEN 0
    ELSE CASE c = 1 -> 20
           [] c = 99 -> -888
           [] c = 101 -> 888
           [] c = 1001 -> -21316
           [] c = 9999 -> -511590
           [] c = 10001 -> 511590
           [] c = 10002 -> -397903

\* Mutant: the tolerance is a dollar instead of a cent.
ExceedsDollar(computed, reported) == Abs(computed - reported) > 100 * Tolerance

\* abs(computed_total - reported_value) > 1e-2, on doubles: the subtraction of the
\* two doubles is exact, and 1e-2 is itself the double nearest to 0.01
Exceeds(computed, reported) ==
    LET dc == computed - reported
        de == RoundErr(computed) - RoundErr(reported)
    IN \/ Abs(dc) > Tolerance
       \/ dc = Tolerance /\ de > RoundErr(Tolerance)
       \/ dc = -Tolerance /\ -de > RoundErr(Tolerance)

OrderIdOr(o, default) == IF o.order_id.t = "absent" THEN default ELSE o.order_id

Invalid(oid, errs) ==
    [status |-> "INVALID", order_id |-> oid, errors |-> errs]

process_order(o, correct_value) ==
    LET errors == ValidateFields(o, 1) IN
    IF errors # <<>> THEN Invalid(OrderIdOr(o, Str("Unknown")), errors)
    ELSE IF TotalRaises(o) THEN [status |-> "RAISES"]
    ELSE
      LET computed_total == SumItems(ItemsOf(o).l)
          reported_value == Reported(o.order_value)
          mismatch == Exceeds(computed_total, reported_value)
      IN
      IF mismatch /\ ~correct_value
      THEN Invalid(o.order_id,
                   <<[kind |-> "Mismatch", reported |-> reported_value,
                      computed |-> computed_total]>>)
      ELSE [status |-> "VALID",
            order_id |-> o.order_id,
            user_id |-> o.user_id,
            order_value |-> IF mismatch THEN computed_total ELSE reported_value,
            order_timestamp |-> o.order_timestamp,
            computed_total |-> computed_total]

\* ------------------------------------------------------- datetime.date
\* datetime.MAXYEAR: the date constructors raise ValueError beyond it
MAXYEAR == 9999

IsLeap(y) == y % 4 = 0 /\ (y % 100 # 0 \/ y % 400 = 0)

DaysInMonth(y, m) ==
    IF m = 2 THEN (IF IsLeap(y) THEN 29 ELSE 28)
    ELSE IF m \in {4, 6, 9, 11} THEN 30 ELSE 31

DaysBeforeYear(y) == (y - 1) * 365 + (y - 1) \div 4 - (y - 1) \div 100 + (y - 1) \div 400

RECURSIVE DaysBeforeMonth(_, _)
DaysBeforeMonth(y, m) ==
    IF m <= 1 THEN 0 ELSE DaysInMonth(y, m - 1) + DaysBeforeMonth(y, m - 1)

\* date(y, m, d).toordinal()
Ymd2Ord(y, m, d) == DaysBeforeYear(y) + DaysBeforeMonth(y, m) + d

\* date.fromordinal(n), formatted by strftime('%Y-%m-%d')
Ord2Ymd(n) ==
    LET y == CHOOSE c \in (n \div 366)..(n \div 365 + 1) :
                 DaysBeforeYear(c) < n /\ n <= DaysBeforeYear(c + 1)
        k == n - DaysBeforeYear(y)
        m == CHOOSE c \in 1..12 :
                 DaysBeforeMonth(y, c) < k /\ k <= DaysBeforeMonth(y, c) + DaysInMonth(y, c)
    IN <<y, m, k - DaysBeforeMonth(y, m)>>

\* Monday of ISO week 1 of the year (the week holding its first Thursday)
IsoWeek1Monday(y) ==
    LET firstday == Ymd2Ord(y, 1, 1)
        firstweekday == (firstday + 6) % 7
    IN IF firstweekday > 3 THEN firstday - firstweekday + 7 ELSE firstday - firstweekday

\* whether the ISO year has a week 53
HasWeek53(y) ==
    LET first_weekday == Ymd2Ord(y, 1, 1) % 7
    IN first_weekday = 4 \/ (first_weekday = 3 /\ IsLeap(y))

\* [(first_day + timedelta(days=i)).strftime('%Y-%m-%d') for i in range(days)]
DayRange(first, days) == [i \in 1..days |-> Ord2Ymd(first + i - 1)]

\* date.max.toordinal(): date + timedelta raises OverflowError beyond it
MaxOrdinal == Ymd2Ord(MAXYEAR, 12, 31)

\* A ValueError (from int(), the tuple unpacking or a date constructor) or the
\* OverflowError of the date addition.
ValueError == [raised |-> TRUE, dates |-> <<>>]
Returns(ds) == [raised |-> FALSE, dates |-> ds]

\* get_dates_for_period(period, date_str); date_str is given as the integers
\* between its '-' separators.
get_dates_for_period(period, d) ==
    CASE period = "d" -> Returns(<<d>>)
      [] period = "w" ->
            IF Len(d) # 2 \/ d[1] < 1 \/ d[1] > MAXYEAR \/ d[2] < 1 \/ d[2] > 53
               \/ (d[2] = 53 /\ ~HasWeek53(d[1]))
               \/ IsoWeek1Monday(d[1]) + (d[2] - 1) * 7 + 6 > MaxOrdinal
            THEN ValueError
            ELSE Returns(DayRange(IsoWeek1Monday(d[1]) + (d[2] - 1) * 7, 7))
      [] period = "m" ->
            IF Len(d) # 2 \/ d[1] < 1 \/ d[2] < 1 \/ d[2] > 12
               \/ d[1] + (d[2] \div 12) > MAXYEAR
            THEN ValueError
            ELSE LET first_day == Ymd2Ord(d[1], d[2], 1)
                     next_month == Ymd2Ord(d[1] + (d[2] \div 12), (d[2] % 12) + 1, 1)
                 IN Returns(DayRange(first_day, next_month - first_day))
      [] period = "y" ->
            IF Len(d) # 1 \/ d[1] < 1 \/ d[1] + 1 > MAXYEAR
            THEN ValueError
            ELSE LET first_day == Ymd2Ord(d[1], 1, 1)
                     next_year == Ymd2Ord(d[1] + 1, 1, 1)
                 IN Returns(DayRange(first_day, next_year - first_day))
      [] OTHER -> Returns(<<>>)

\* ------------------------------------------------------------------- state
VARIABLES
    redis,          \* the Redis keys: hashes, sorted sets, temporary union keys
    queue,          \* SQS: each message "visible", "inflight" or "deleted"
    body,           \* the body of each message (an index into Payloads)
    deliveries,     \* how often SQS has handed each message to a worker
    faults,         \* history: failures, interrupts and redeliveries so far
    pc,             \* where each worker is in MessageWorker.run
    running,        \* self.running of each worker
    batch,          \* messages of the current receive_message response
    idx,            \* position of the for loop in batch (1-based)
    processed,      \* result of process_order for the current message
    date,           \* date derived from order_timestamp
    new_daily_spend,\* value returned by hincrbyfloat on the daily hash
    done,           \* history: aggregate updates completed for the current message
    sigint,         \* history: KeyboardInterrupt was raised in the worker
    rpc,            \* where each get_top_users call is
    req,            \* its request (an index into Requests)
    dates,          \* its get_dates_for_period result
    top,            \* its top_users_with_scores
    result,         \* its response
    alone,          \* history: the ranking the call's own union held
    order_data,     \* process_order called on its own: the order
    correct_value,  \* its correct_value flag
    returned,       \* what it returned or that it raised
    date_query,     \* get_dates_for_period called on its own: period and date_str
    date_list       \* what it returned or that it raised

wvars == <<pc, running, batch, idx, processed, date, new_daily_spend, done, sigint>>
qvars == <<queue, body, deliveries>>
fvars == <<faults>>
rvars == <<rpc, req, dates, top, result, alone>>
pvars == <<order_data, correct_value, returned, date_query, date_list>>
vars == <<redis, qvars, fvars, wvars, rvars, pvars>>

\* ------------------------------------------------------------ Redis values
ZeroHash == [order_count |-> 0, total_spend |-> 0]
ZeroStats == [total_orders |-> 0, total_revenue |-> 0]
EmptyZ == [u \in {} |-> 0]

\* Mutant: the field is overwritten (HSET) instead of incremented.
HIncrBySet(h, field, delta) == [h EXCEPT ![field] = delta]

\* HINCRBY / HINCRBYFLOAT: atomic add to one field, returns the new value
HIncrBy(h, field, delta) == [h EXCEPT ![field] = @ + delta]

\* Mutant: the score is incremented (ZINCRBY) instead of set.
ZIncrBy(z, member, score) ==
    [u \in DOMAIN z \cup {member} |->
        IF u = member THEN (IF u \in DOMAIN z THEN z[u] ELSE 0) + score ELSE z[u]]

\* ZADD key {member: score}: absolute set of the member's score
ZAdd(z, member, score) ==
    [u \in DOMAIN z \cup {member} |-> IF u = member THEN score ELSE z[u]]

\* Redis order of a sorted set, highest first: by score, ties by member name
Before(z, a, b) == z[a] > z[b] \/ (z[a] = z[b] /\ LexRank(a) > LexRank(b))

RECURSIVE SortDesc(_, _)
SortDesc(z, members) ==
    IF members = {} THEN <<>>
    ELSE LET first == CHOOSE a \in members : \A b \in members \ {a} : Before(z, a, b)
         IN <<<<first, z[first]>>>> \o SortDesc(z, members \ {first})

\* ZREVRANGE key start stop WITHSCORES: negative indexes count from the end
ZRevRange(z, start, stop) ==
    LET all == SortDesc(z, DOMAIN z)
        len == Len(all)
        lo0 == IF start < 0 THEN len + start ELSE start
        hi0 == IF stop < 0 THEN len + stop ELSE stop
        lo == IF lo0 < 0 THEN 0 ELSE lo0
        hi == IF hi0 >= len THEN len - 1 ELSE hi0
    IN IF lo > hi \/ lo >= len THEN <<>> ELSE SubSeq(all, lo + 1, hi + 1)

RECURSIVE SumScores(_, _, _)
SumScores(zs, u, i) ==
    IF i > Len(zs) THEN 0
    ELSE (IF u \in DOMAIN zs[i] THEN zs[i][u] ELSE 0) + SumScores(zs, u, i + 1)

\* Mutant: the union keeps each member's highest daily score (AGGREGATE MAX).
ZUnionMax(zs) ==
    [u \in UNION {DOMAIN zs[i] : i \in 1..Len(zs)} |->
        CHOOSE x \in {zs[i][u] : i \in {j \in 1..Len(zs) : u \in DOMAIN zs[j]}} :
            \A i \in 1..Len(zs) : u \in DOMAIN zs[i] => zs[i][u] <= x]

\* ZUNIONSTORE dest keys AGGREGATE SUM: the set stored at dest
ZUnion(zs) ==
    [u \in UNION {DOMAIN zs[i] : i \in 1..Len(zs)} |-> SumScores(zs, u, 1)]

\* ------------------------------------------------------- MessageWorker.run
\* Mutant: the message is acknowledged before the global statistics are written.
ValidStepsDeleteEarly == <<"hincrby_daily_count", "hincrbyfloat_daily_spend",
                           "hincrby_user_count", "hincrbyfloat_user_spend",
                           "zadd_daily", "delete_message",
                           "hincrby_global_orders", "hincrbyfloat_global_revenue">>

\* Mutant: the global statistics are written before the per-user hashes.
ValidStepsGlobalFirst == <<"hincrby_global_orders", "hincrbyfloat_global_revenue",
                           "hincrby_daily_count", "hincrbyfloat_daily_spend",
                           "hincrby_user_count", "hincrbyfloat_user_spend",
                           "zadd_daily",
                           "delete_message">>

\* The store and queue calls made for a VALID order, in program order.
ValidSteps == <<"hincrby_daily_count", "hincrbyfloat_daily_spend",
                "hincrby_user_count", "hincrbyfloat_user_spend",
                "zadd_daily",
                "hincrby_global_orders", "hincrbyfloat_global_revenue",
                "delete_message">>

Updates == {"hincrby_daily_count", "hincrbyfloat_daily_spend",
            "hincrby_user_count", "hincrbyfloat_user_spend", "zadd_daily",
            "hincrby_global_orders", "hincrbyfloat_global_revenue"}

StepIndex(s) == CHOOSE i \in 1..Len(ValidSteps) : ValidSteps[i] = s

\* Inside the per-message try block.
InMessage == {"parse", "validate", "split", "delete_invalid"} \cup Updates \cup {"delete_message"}
\* Inside the outer try block.
InTry == {"receive"} \cup InMessage

msg(w) == batch[w][idx[w]]

NoResult == [status |-> "NONE"]
NoDate == <<>>

\* End of one iteration of the for loop (line 62): the next message of the batch,
\* or back to the while test.  The locals of the finished iteration are dead and
\* are cleared.
EndMessage(w) ==
    /\ pc' = [pc EXCEPT ![w] = IF idx[w] + 1 <= Len(batch[w]) THEN "parse" ELSE "while"]
    /\ idx' = [idx EXCEPT ![w] = IF idx[w] + 1 <= Len(batch[w]) THEN @ + 1 ELSE 1]
    /\ batch' = [batch EXCEPT ![w] = IF idx[w] + 1 <= Len(batch[w]) THEN @ ELSE <<>>]
    /\ processed' = [processed EXCEPT ![w] = NoResult]
    /\ date' = [date EXCEPT ![w] = NoDate]
    /\ new_daily_spend' = [new_daily_spend EXCEPT ![w] = 0]
    /\ done' = [done EXCEPT ![w] = {}]

\* Control moves on inside the message.
Goto(w, label) ==
    /\ pc' = [pc EXCEPT ![w] = label]
    /\ UNCHANGED <<idx, batch>>

\* Redis before the first order: a missing hash field reads as 0
EmptyStore ==
    [udaily |-> [k \in Users \X OrderDates |-> ZeroHash],
     user |-> [u \in Users |-> ZeroHash],
     daily |-> [d \in OrderDates |-> EmptyZ],
     stats |-> ZeroStats,
     temp |-> <<>>]

TypeOK ==
    /\ queue \in [Msgs -> {"visible", "inflight", "deleted"}]
    /\ body \in [Msgs -> Bodies]
    /\ deliveries \in [Msgs -> 0..(MaxFaults + 1)]
    /\ faults \in 0..MaxFaults
    /\ running \in [Workers -> BOOLEAN]
    /\ \A w \in Workers : done[w] \subseteq Updates

\* Neither pure function is being exercised on its own.
PureIdle ==
    /\ order_data = Absent
    /\ correct_value = TRUE
    /\ returned = NoResult
    /\ date_query = <<>>
    /\ date_list = NoResult

Init ==
    /\ PureIdle
    /\ redis = EmptyStore
    /\ queue = [m \in Msgs |-> "visible"]
    /\ body \in {b \in [Msgs -> Bodies] : \A m \in Msgs : m > 1 => b[m - 1] <= b[m]}
    /\ deliveries = [m \in Msgs |-> 0]
    /\ faults = 0
    /\ pc = [w \in Workers |-> "start"]
    /\ running = [w \in Workers |-> TRUE]
    /\ batch = [w \in Workers |-> <<>>]
    /\ idx = [w \in Workers |-> 1]
    /\ processed = [w \in Workers |-> NoResult]
    /\ date = [w \in Workers |-> NoDate]
    /\ new_daily_spend = [w \in Workers |-> 0]
    /\ done = [w \in Workers |-> {}]
    /\ sigint = [w \in Workers |-> FALSE]
    /\ rpc = [r \in Readers |-> "idle"]
    /\ req = [r \in Readers |-> 0]
    /\ dates = [r \in Readers |-> <<>>]
    /\ top = [r \in Readers |-> <<>>]
    /\ result = [r \in Readers |-> [status |-> 0]]
    /\ alone = [r \in Readers |-> <<>>]

\* Everything a control step of the worker leaves alone.
ControlOnly == UNCHANGED <<redis, qvars, running, batch, idx, processed, date,
                             new_daily_spend, done, sigint, rvars>>

\* run() lines 44-49: both health checks pass
Startup(w) ==
    /\ pc[w] = "start"
    /\ pc' = [pc EXCEPT ![w] = "while"]
    /\ ControlOnly

\* run() lines 44-49: a health check fails and run returns before the loop
StartupFail(w) ==
    /\ pc[w] = "start"
    /\ pc' = [pc EXCEPT ![w] = "returned"]
    /\ ControlOnly

\* line 51: while self.running
WhileTest(w) ==
    /\ pc[w] = "while"
    /\ pc' = [pc EXCEPT ![w] = IF running[w] THEN "receive" ELSE "stopped"]
    /\ ControlOnly

Visible == {m \in Msgs : queue[m] = "visible"}

\* The responses receive_message can give: up to MaxNumberOfMessages visible messages.
Batches ==
    {<<m>> : m \in Visible}
    \cup {b \in {<<m, n>> : m \in Visible, n \in Visible} :
             b[1] # b[2] /\ MaxNumberOfMessages >= 2}

InBatch(b, m) == \E i \in 1..Len(b) : b[i] = m

\* lines 54-61: receive_message returns messages; they become invisible to others
Receive(w) ==
    /\ pc[w] = "receive"
    /\ \E b \in Batches :
        /\ batch' = [batch EXCEPT ![w] = b]
        /\ queue' = [m \in Msgs |-> IF InBatch(b, m) THEN "inflight" ELSE queue[m]]
        /\ deliveries' = [m \in Msgs |-> IF InBatch(b, m) THEN deliveries[m] + 1
                                         ELSE deliveries[m]]
    /\ idx' = [idx EXCEPT ![w] = 1]
    /\ pc' = [pc EXCEPT ![w] = "parse"]
    /\ UNCHANGED <<redis, body, running, processed, date, new_daily_spend, done,
                   sigint, rvars>>

\* lines 60, 115-116: the long poll returns no message
ReceiveEmpty(w) ==
    /\ pc[w] = "receive"
    /\ Visible = {}
    /\ pc' = [pc EXCEPT ![w] = "while"]
    /\ ControlOnly

\* Mutant: the outer handler gives up the loop instead of sleeping.
ReceiveFailStops(w) ==
    /\ pc[w] = "receive"
    /\ pc' = [pc EXCEPT ![w] = "while"]
    /\ running' = [running EXCEPT ![w] = FALSE]
    /\ UNCHANGED <<redis, qvars, batch, idx, processed, date, new_daily_spend, done,
                   sigint, rvars>>

\* lines 54, 121-123: receive_message raises; the outer handler logs and sleeps
ReceiveFail(w) ==
    /\ pc[w] = "receive"
    /\ pc' = [pc EXCEPT ![w] = "backoff"]
    /\ ControlOnly

\* line 123: time.sleep(10) is over
Backoff(w) ==
    /\ pc[w] = "backoff"
    /\ pc' = [pc EXCEPT ![w] = "while"]
    /\ ControlOnly

\* Mutant: the per-message handler also deletes the message.
HandlerDeletes(w) ==
    /\ EndMessage(w)
    /\ queue' = [queue EXCEPT ![msg(w)] = "deleted"]
    /\ UNCHANGED <<redis, body, deliveries, running, sigint, rvars>>

\* lines 113-114: an Exception raised while processing the message is logged and
\* the for loop goes on
Handler(w) ==
    /\ EndMessage(w)
    /\ UNCHANGED <<redis, qvars, running, sigint, rvars>>

\* Mutant: json.loads sits outside the per-message try, so a parse failure reaches
\* the outer handler and the rest of the batch is dropped.
ParseUncaught(w) ==
    /\ pc[w] = "parse"
    /\ IF Payloads[body[msg(w)]].json
       THEN /\ Goto(w, "validate")
            /\ UNCHANGED <<redis, qvars, running, processed, date, new_daily_spend,
                           done, sigint, rvars>>
       ELSE /\ pc' = [pc EXCEPT ![w] = "backoff"]
            /\ batch' = [batch EXCEPT ![w] = <<>>]
            /\ idx' = [idx EXCEPT ![w] = 1]
            /\ UNCHANGED <<redis, qvars, running, processed, date, new_daily_spend,
                           done, sigint, rvars>>

\* line 65: json.loads(message['Body'])
Parse(w) ==
    /\ pc[w] = "parse"
    /\ IF Payloads[body[msg(w)]].json
       THEN /\ Goto(w, "validate")
            /\ UNCHANGED <<redis, qvars, running, processed, date, new_daily_spend,
                           done, sigint, rvars>>
       ELSE Handler(w)

\* The branch taken on the result of process_order (lines 70, 106).
Branch(p) ==
    CASE p.status = "VALID" -> "split"
      [] p.status = "INVALID" -> "delete_invalid"
      [] OTHER -> "raise"

\* line 68: processed = process_order(message_body)
Validate(w) ==
    /\ pc[w] = "validate"
    /\ LET p == process_order(Payloads[body[msg(w)]], TRUE) IN
       IF Branch(p) = "raise"
       THEN Handler(w)
       ELSE /\ Goto(w, Branch(p))
            /\ processed' = [processed EXCEPT ![w] = p]
            /\ UNCHANGED <<redis, qvars, running, date, new_daily_spend, done,
                           sigint, rvars>>

\* Mutant: an order without a timestamp is dropped like an INVALID one.
SplitDrops(w) ==
    /\ pc[w] = "split"
    /\ LET ts == processed[w].order_timestamp IN
       IF ts.t = "str"
       THEN /\ date' = [date EXCEPT ![w] = Head(ts.s)]
            /\ Goto(w, ValidSteps[1])
            /\ UNCHANGED <<redis, qvars, running, processed, new_daily_spend, done,
                           sigint, rvars>>
       ELSE /\ queue' = [queue EXCEPT ![msg(w)] = "deleted"]
            /\ EndMessage(w)
            /\ UNCHANGED <<redis, body, deliveries, running, sigint, rvars>>

\* lines 72-78: date = order_timestamp.split('T')[0]; None has no split, and the
\* AttributeError goes to the per-message handler
Split(w) ==
    /\ pc[w] = "split"
    /\ LET ts == processed[w].order_timestamp IN
       IF ts.t = "str"
       THEN /\ date' = [date EXCEPT ![w] = Head(ts.s)]
            /\ Goto(w, ValidSteps[1])
            /\ UNCHANGED <<redis, qvars, running, processed, new_daily_spend, done,
                           sigint, rvars>>
       ELSE Handler(w)

\* The order being recorded by worker w.
user_id(w) == processed[w].user_id.s
order_value(w) == processed[w].order_value
user_key_daily(w) == <<user_id(w), date[w]>>

\* A call of the VALID branch returned: the worker moves to its next call, or the
\* iteration ends after the last one.
Advance(w, step, spend) ==
    IF StepIndex(step) < Len(ValidSteps)
    THEN /\ Goto(w, ValidSteps[StepIndex(step) + 1])
         /\ done' = [done EXCEPT ![w] = @ \cup ({step} \cap Updates)]
         /\ new_daily_spend' = [new_daily_spend EXCEPT ![w] = spend]
         /\ UNCHANGED <<processed, date>>
    ELSE EndMessage(w)

\* line 82: hincrby(user_key_daily, 'order_count', 1)
HIncrDailyCount(w) ==
    /\ pc[w] = "hincrby_daily_count"
    /\ redis' = [redis EXCEPT !.udaily[user_key_daily(w)] = HIncrBy(@, "order_count", 1)]
    /\ Advance(w, "hincrby_daily_count", new_daily_spend[w])
    /\ UNCHANGED <<qvars, running, sigint, rvars>>

\* line 83: new_daily_spend = hincrbyfloat(user_key_daily, 'total_spend', order_value)
HIncrDailySpend(w) ==
    /\ pc[w] = "hincrbyfloat_daily_spend"
    /\ LET h == HIncrBy(redis.udaily[user_key_daily(w)], "total_spend", order_value(w)) IN
        /\ redis' = [redis EXCEPT !.udaily[user_key_daily(w)] = h]
        /\ Advance(w, "hincrbyfloat_daily_spend", h.total_spend)
    /\ UNCHANGED <<qvars, running, sigint, rvars>>

\* line 87: hincrby(user_key, 'order_count', 1)
HIncrUserCount(w) ==
    /\ pc[w] = "hincrby_user_count"
    /\ redis' = [redis EXCEPT !.user[user_id(w)] = HIncrBy(@, "order_count", 1)]
    /\ Advance(w, "hincrby_user_count", new_daily_spend[w])
    /\ UNCHANGED <<qvars, running, sigint, rvars>>

\* line 88: hincrbyfloat(user_key, 'total_spend', order_value)
HIncrUserSpend(w) ==
    /\ pc[w] = "hincrbyfloat_user_spend"
    /\ redis' = [redis EXCEPT !.user[user_id(w)] = HIncrBy(@, "total_spend", order_value(w))]
    /\ Advance(w, "hincrbyfloat_user_spend", new_daily_spend[w])
    /\ UNCHANGED <<qvars, running, sigint, rvars>>

\* lines 91-92: zadd(f"daily:{date}", {user_id: new_daily_spend})
ZAddDaily(w) ==
    /\ pc[w] = "zadd_daily"
    /\ redis' = [redis EXCEPT !.daily[date[w]] = ZAdd(@, user_id(w), new_daily_spend[w])]
    /\ Advance(w, "zadd_daily", new_daily_spend[w])
    /\ UNCHANGED <<qvars, running, sigint, rvars>>

\* line 95: hincrby('global:stats', 'total_orders', 1)
HIncrGlobalOrders(w) ==
    /\ pc[w] = "hincrby_global_orders"
    /\ redis' = [redis EXCEPT !.stats = HIncrBy(@, "total_orders", 1)]
    /\ Advance(w, "hincrby_global_orders", new_daily_spend[w])
    /\ UNCHANGED <<qvars, running, sigint, rvars>>

\* line 96: hincrbyfloat('global:stats', 'total_revenue', order_value)
HIncrGlobalRevenue(w) ==
    /\ pc[w] = "hincrbyfloat_global_revenue"
    /\ redis' = [redis EXCEPT !.stats = HIncrBy(@, "total_revenue", order_value(w))]
    /\ Advance(w, "hincrbyfloat_global_revenue", new_daily_spend[w])
    /\ UNCHANGED <<qvars, running, sigint, rvars>>

\* lines 82-96, 113-114: one of the Redis calls raises
StoreFail(w) ==
    /\ pc[w] \in Updates
    /\ Handler(w)

\* lines 101-104: delete_message after the aggregates of a VALID order
DeleteValid(w) ==
    /\ pc[w] = "delete_message"
    /\ queue' = [queue EXCEPT ![msg(w)] = "deleted"]
    /\ Advance(w, "delete_message", new_daily_spend[w])
    /\ UNCHANGED <<redis, body, deliveries, running, sigint, rvars>>

\* Mutant: an INVALID order is logged but left on the queue.
DeleteInvalidKeeps(w) ==
    /\ pc[w] = "delete_invalid"
    /\ EndMessage(w)
    /\ UNCHANGED <<redis, qvars, running, sigint, rvars>>

\* lines 107-112: an INVALID order is logged and deleted from the queue
DeleteInvalid(w) ==
    /\ pc[w] = "delete_invalid"
    /\ queue' = [queue EXCEPT ![msg(w)] = "deleted"]
    /\ EndMessage(w)
    /\ UNCHANGED <<redis, body, deliveries, running, sigint, rvars>>

\* lines 101, 109, 113-114: delete_message raises
DeleteFail(w) ==
    /\ pc[w] \in {"delete_message", "delete_invalid"}
    /\ Handler(w)

\* lines 118-120: KeyboardInterrupt is raised asynchronously.  Inside the outer try
\* it skips the rest of the message (it is no Exception, so the per-message handler
\* does not catch it) and clears self.running; outside it, it leaves run().
Interrupt(w) ==
    /\ pc[w] \in InTry \cup {"while", "backoff"}
    /\ ~sigint[w]
    /\ sigint' = [sigint EXCEPT ![w] = TRUE]
    /\ IF pc[w] \in InTry
       THEN /\ running' = [running EXCEPT ![w] = FALSE]
            /\ pc' = [pc EXCEPT ![w] = "while"]
       ELSE /\ pc' = [pc EXCEPT ![w] = "killed"]
            /\ UNCHANGED running
    /\ UNCHANGED <<redis, qvars, batch, idx, processed, date, new_daily_spend, done, rvars>>

\* SQS: the visibility timeout of an undeleted message expires
Redeliver(m) ==
    /\ queue[m] = "inflight"
    /\ queue' = [queue EXCEPT ![m] = "visible"]
    /\ UNCHANGED <<redis, body, deliveries, wvars, rvars>>

WorkerStep(w) ==
    \/ Startup(w) \/ WhileTest(w) \/ Receive(w) \/ ReceiveEmpty(w)
    \/ Parse(w) \/ Validate(w) \/ Split(w)
    \/ HIncrDailyCount(w) \/ HIncrDailySpend(w) \/ HIncrUserCount(w) \/ HIncrUserSpend(w)
    \/ ZAddDaily(w) \/ HIncrGlobalOrders(w) \/ HIncrGlobalRevenue(w)
    \/ DeleteValid(w) \/ DeleteInvalid(w)

\* A failure of a collaborator, an interrupt or a redelivery: at most MaxFaults of them.
Fault(A) ==
    /\ faults < MaxFaults
    /\ faults' = faults + 1
    /\ A

WorkerFault(w) ==
    \/ Fault(StartupFail(w)) \/ Fault(ReceiveFail(w)) \/ Fault(StoreFail(w))
    \/ Fault(DeleteFail(w)) \/ Fault(Interrupt(w))

Next ==
    \/ \E w \in Workers : WorkerStep(w) /\ UNCHANGED <<faults, pvars>>
    \/ \E w \in Workers : Backoff(w) /\ UNCHANGED <<faults, pvars>>
    \/ \E w \in Workers : WorkerFault(w) /\ UNCHANGED pvars
    \/ \E m \in Msgs : Fault(Redeliver(m)) /\ UNCHANGED pvars

Spec == Init /\ [][Next]_vars

NextClean == \E w \in Workers : WorkerStep(w) /\ UNCHANGED <<faults, pvars>>

SpecClean == Init /\ [][NextClean]_vars

\* No call fails, but SQS may hand a message out again before it is deleted.
NextRedeliver ==
    \/ \E w \in Workers : WorkerStep(w) /\ UNCHANGED <<faults, pvars>>
    \/ \E m \in Msgs : Fault(Redeliver(m)) /\ UNCHANGED pvars

SpecRedeliver == Init /\ [][NextRedeliver]_vars

\* A single worker process, nothing fails.
NextSolo == WorkerStep(1) /\ UNCHANGED <<faults, pvars>>

SpecSolo == Init /\ [][NextSolo]_vars


\* ---------------------------------------------------------- get_top_users
\* The requests a client may send: period, date (its integers), n.
Requests == <<
    [period |-> "w", date |-> <<2024, 1>>, n |-> 1],
    [period |-> "w", date |-> <<2024, 1>>, n |-> 2],
    [period |-> "m", date |-> <<2024, 1>>, n |-> 2],
    [period |-> "d", date |-> D1, n |-> 1],
    [period |-> "x", date |-> D1, n |-> 1],
    [period |-> "w", date |-> <<2024, 1>>, n |-> 0]
>>

period(r) == Requests[req[r]].period
n(r) == Requests[req[r]].n

\* line 115: temp_key = f"temp:top:{period}:{date}"
temp_key(r) == <<"temp:top", Requests[req[r]].period, Requests[req[r]].date>>

\* the sorted set stored at daily:{d}; a missing key reads as the empty set
Daily(d) == IF d \in DOMAIN redis.daily THEN redis.daily[d] ELSE EmptyZ

\* hget(f"user:{u}:{d}", 'order_count'), 0 when absent
DailyCount(u, d) ==
    IF <<u, d>> \in DOMAIN redis.udaily THEN redis.udaily[<<u, d>>].order_count ELSE 0

RECURSIVE SumCounts(_, _, _)
SumCounts(u, ds, i) ==
    IF i > Len(ds) THEN 0 ELSE DailyCount(u, ds[i]) + SumCounts(u, ds, i + 1)

\* lines 81-92: get_user_stats(user_id); a hash never written reads as empty
get_user_stats(u) ==
    IF redis.user[u] = ZeroHash
    THEN [order_count |-> 0, total_spend |-> 0]
    ELSE [user_id |-> u,
          order_count |-> redis.user[u].order_count,
          total_spend |-> redis.user[u].total_spend]

ReaderOnly == UNCHANGED <<qvars, wvars>>

\* Where the handler of line 154 leaves the call: it answers 500.
Raise500(r) ==
    /\ rpc' = [rpc EXCEPT ![r] = "returned"]
    /\ result' = [result EXCEPT ![r] = [status |-> 500]]
    /\ dates' = [dates EXCEPT ![r] = <<>>]
    /\ top' = [top EXCEPT ![r] = <<>>]

\* a client sends GET /top-users
Call(r) ==
    /\ rpc[r] = "idle"
    /\ \E q \in 1..Len(Requests) : req' = [req EXCEPT ![r] = q]
    /\ rpc' = [rpc EXCEPT ![r] = "dates"]
    /\ UNCHANGED <<redis, dates, top, result, alone>>
    /\ ReaderOnly

\* lines 104-108: dates = get_dates_for_period(period, date).  An exception of the
\* call, and the HTTPException(400) that line 106 raises for an empty list, are
\* raised inside the try and HTTPException is an Exception: line 154 catches both
\* and answers 500.
GetDates(r) ==
    /\ rpc[r] = "dates"
    /\ LET ds == get_dates_for_period(period(r), Requests[req[r]].date) IN
       IF ds.raised \/ ds.dates = <<>>
       THEN Raise500(r)
       ELSE /\ dates' = [dates EXCEPT ![r] = ds.dates]
            /\ rpc' = [rpc EXCEPT ![r] = IF period(r) = "d" THEN "zrevrange_daily"
                                         ELSE "zunionstore"]
            /\ UNCHANGED <<top, result>>
    /\ UNCHANGED <<redis, req, alone>>
    /\ ReaderOnly

\* lines 110-111: zrevrange(f"daily:{date}", 0, n-1, withscores=True)
ZRevRangeDaily(r) ==
    /\ rpc[r] = "zrevrange_daily"
    /\ top' = [top EXCEPT ![r] = ZRevRange(Daily(Requests[req[r]].date), 0, n(r) - 1)]
    /\ rpc' = [rpc EXCEPT ![r] = "format"]
    /\ UNCHANGED <<redis, req, dates, result, alone>>
    /\ ReaderOnly

\* lines 114-117: zunionstore(temp_key, daily_keys, aggregate='SUM'); an empty
\* union stores no key
ZUnionStore(r) ==
    /\ rpc[r] = "zunionstore"
    /\ LET z == ZUnion([i \in 1..Len(dates[r]) |-> Daily(dates[r][i])]) IN
        /\ redis' = [redis EXCEPT !.temp =
                        IF DOMAIN z = {}
                        THEN [k \in DOMAIN @ \ {temp_key(r)} |-> @[k]]
                        ELSE [k \in DOMAIN @ \cup {temp_key(r)} |->
                                 IF k = temp_key(r) THEN [z |-> z, by |-> r] ELSE @[k]]]
        /\ alone' = [alone EXCEPT ![r] = ZRevRange(z, 0, n(r) - 1)]
    /\ rpc' = [rpc EXCEPT ![r] = "zrevrange_temp"]
    /\ UNCHANGED <<req, dates, top, result>>
    /\ ReaderOnly

\* line 120: zrevrange(temp_key, 0, n-1, withscores=True)
ZRevRangeTemp(r) ==
    /\ rpc[r] = "zrevrange_temp"
    /\ top' = [top EXCEPT ![r] =
                  IF temp_key(r) \in DOMAIN redis.temp
                  THEN ZRevRange(redis.temp[temp_key(r)].z, 0, n(r) - 1)
                  ELSE <<>>]
    /\ rpc' = [rpc EXCEPT ![r] = "delete_temp"]
    /\ UNCHANGED <<redis, req, dates, result, alone>>
    /\ ReaderOnly

\* line 123: delete(temp_key)
DeleteTemp(r) ==
    /\ rpc[r] = "delete_temp"
    /\ redis' = [redis EXCEPT !.temp = [k \in DOMAIN @ \ {temp_key(r)} |-> @[k]]]
    /\ rpc' = [rpc EXCEPT ![r] = "format"]
    /\ UNCHANGED <<req, dates, top, result, alone>>
    /\ ReaderOnly

\* lines 130-141: order_count of one returned user
order_count(r, u) ==
    IF period(r) = "d" THEN DailyCount(u, Requests[req[r]].date)
    ELSE SumCounts(u, dates[r], 1)

\* lines 126-153: the response is built from top_users_with_scores
Format(r) ==
    /\ rpc[r] = "format"
    /\ result' = [result EXCEPT ![r] =
            [status |-> 200,
             top_users |-> [i \in 1..Len(top[r]) |->
                               [user_id |-> top[r][i][1],
                                order_count |-> order_count(r, top[r][i][1]),
                                total_spend |-> top[r][i][2]]]]]
    /\ rpc' = [rpc EXCEPT ![r] = "returned"]
    /\ dates' = [dates EXCEPT ![r] = <<>>]
    /\ top' = [top EXCEPT ![r] = <<>>]
    /\ UNCHANGED <<redis, req, alone>>
    /\ ReaderOnly

StoreCalls == {"zrevrange_daily", "zunionstore", "zrevrange_temp", "delete_temp", "format"}

\* lines 154-155: a Redis call of the handler raises; the handler answers 500
ReadFail(r) ==
    /\ rpc[r] \in StoreCalls
    /\ Raise500(r)
    /\ UNCHANGED <<redis, req, alone>>
    /\ ReaderOnly

ReaderStep(r) ==
    \/ Call(r) \/ GetDates(r) \/ ZRevRangeDaily(r) \/ ZUnionStore(r)
    \/ ZRevRangeTemp(r) \/ DeleteTemp(r) \/ Format(r)

\* The aggregates after one order went through lines 80-96 without interleaving.
RecordOrder(store, u, d, v) ==
    LET h == HIncrBy(HIncrBy(store.udaily[<<u, d>>], "order_count", 1), "total_spend", v)
    IN [store EXCEPT
          !.udaily[<<u, d>>] = h,
          !.user[u] = HIncrBy(HIncrBy(@, "order_count", 1), "total_spend", v),
          !.daily[d] = ZAdd(@, u, h.total_spend),
          !.stats = HIncrBy(HIncrBy(@, "total_orders", 1), "total_revenue", v)]

RECURSIVE RecordAll(_, _)
RecordAll(store, orders) ==
    IF orders = <<>> THEN store
    ELSE RecordAll(RecordOrder(store, Head(orders)[1], Head(orders)[2], Head(orders)[3]),
                   Tail(orders))

\* Orders the worker has recorded before the API is queried.
Recorded == {<<"U1", D1, 100>>, <<"U1", D2, 200>>, <<"U2", D1, 100>>, <<"U2", D2, 300>>,
             <<"U2", D3, 500>>}

Histories == UNION {[1..k -> Recorded] : k \in 0..MaxOrders}

\* The API is queried after the worker has consumed the queue.
\* The queue is consumed and no worker or API call is under way.
Drained ==
    /\ queue = [m \in Msgs |-> "deleted"]
    /\ body = [m \in Msgs |-> 1]
    /\ deliveries = [m \in Msgs |-> 1]
    /\ faults = 0
    /\ pc = [w \in Workers |-> "while"]
    /\ running = [w \in Workers |-> TRUE]
    /\ batch = [w \in Workers |-> <<>>]
    /\ idx = [w \in Workers |-> 1]
    /\ processed = [w \in Workers |-> NoResult]
    /\ date = [w \in Workers |-> NoDate]
    /\ new_daily_spend = [w \in Workers |-> 0]
    /\ done = [w \in Workers |-> {}]
    /\ sigint = [w \in Workers |-> FALSE]
    /\ rpc = [r \in Readers |-> "idle"]
    /\ req = [r \in Readers |-> 0]
    /\ dates = [r \in Readers |-> <<>>]
    /\ top = [r \in Readers |-> <<>>]
    /\ result = [r \in Readers |-> [status |-> 0]]
    /\ alone = [r \in Readers |-> <<>>]

InitWeb ==
    /\ PureIdle
    /\ \E h \in Histories : redis = RecordAll(EmptyStore, h)
    /\ Drained

NextWeb ==
    \/ \E r \in Readers : ReaderStep(r) /\ UNCHANGED <<faults, pvars>>
    \/ \E r \in Readers : Fault(ReadFail(r)) /\ UNCHANGED pvars

SpecWeb == InitWeb /\ [][NextWeb]_vars


\* ------------------------------------------- process_order called on its own
\* The values a producer may send for each field of an order.
UserIds == {Absent, Null, Str(""), Str(" "), Str("U1"), Num(5)}
OrderIds == {Absent, Null, Str(""), Str("O1"), Num(7)}
OrderValues ==
    {Absent, Null, Str("9"), Bool(TRUE)}
    \cup {Num(v) : v \in {-100, 0, 1, 99, 100, 101, 1001, 9999, 10000, 10001, 10002, 10200}}
ItemLists ==
    {Absent, Null, List(<<>>),
     List(<<Item(Num(1), Num(100))>>),
     List(<<Item(Num(1), Num(1000))>>),
     List(<<Item(Num(1), Num(10000))>>),
     List(<<Item(Absent, Num(100))>>),
     List(<<Item(Num(2), Absent)>>),
     List(<<Item(Null, Num(100))>>),
     List(<<Item(Num(1), Num(100)), Item(Num(-2), Num(100))>>)}

Orders ==
    {Order(oid, uid, Stamp(D1), val, items) :
        oid \in OrderIds, uid \in UserIds, val \in OrderValues, items \in ItemLists}

InitValidate ==
    /\ order_data \in Orders
    /\ correct_value \in BOOLEAN
    /\ returned = NoResult
    /\ date_query = <<>>
    /\ date_list = NoResult
    /\ redis = EmptyStore
    /\ Drained

\* processed = process_order(order_data, correct_value)
CallProcessOrder ==
    /\ returned = NoResult
    /\ returned' = process_order(order_data, correct_value)
    /\ UNCHANGED <<redis, qvars, fvars, wvars, rvars, order_data, correct_value,
                   date_query, date_list>>

SpecValidate == InitValidate /\ [][CallProcessOrder]_vars

\* ------------------------------------ get_dates_for_period called on its own
\* The years a client may ask about: some recent ones and the last one of datetime.
Years == (FirstYear..LastYear) \cup {MAXYEAR}

\* The calls: period and date_str (as the integers between its '-').
DateQueries ==
    {[period |-> "w", date_str |-> <<y, w>>] : y \in Years, w \in 1..53}
    \cup {[period |-> "m", date_str |-> <<y, m>>] : y \in Years, m \in 1..12}
    \cup {[period |-> "y", date_str |-> <<y>>] : y \in Years}
    \cup {[period |-> "d", date_str |-> <<y, 2, 29>>] : y \in Years}
    \cup {[period |-> "x", date_str |-> <<y>>] : y \in Years}

InitDates ==
    /\ date_query \in DateQueries
    /\ date_list = NoResult
    /\ order_data = Absent
    /\ correct_value = TRUE
    /\ returned = NoResult
    /\ redis = EmptyStore
    /\ Drained

\* dates = get_dates_for_period(period, date)
CallGetDates ==
    /\ date_list = NoResult
    /\ date_list' = get_dates_for_period(date_query.period, date_query.date_str)
    /\ UNCHANGED <<redis, qvars, fvars, wvars, rvars, order_data, correct_value,
                   returned, date_query>>

SpecDates == InitDates /\ [][CallGetDates]_vars

\* ------------------------------------------------------------------ claims
\* The step is taken by worker w.
Acts(w) == pc'[w] # pc[w] \/ idx'[w] # idx[w] \/ batch'[w] # batch[w]

\* The verdict of process_order on the message worker w is handling.
Verdict(w) ==
    IF Payloads[body[msg(w)]].json
    THEN process_order(Payloads[body[msg(w)]], TRUE).status
    ELSE "UNPARSED"

\* The verdict and the recorded value of message m.
IsValid(m) ==
    /\ Payloads[body[m]].json
    /\ process_order(Payloads[body[m]], TRUE).status = "VALID"
UserOf(m) == process_order(Payloads[body[m]], TRUE).user_id.s
ValueOf(m) == process_order(Payloads[body[m]], TRUE).order_value

\* C1: a VALID message is deleted from the queue only by a delivery that has
\* completed every aggregate update (daily hash, user hash, leaderboard, global
\* stats); a delivery that leaves the update sequence early, because a store call
\* failed, leaves the queue alone.
C1_DeleteOnlyAfterAllUpdates ==
    [][\A w \in Workers :
        (Acts(w) /\ pc[w] \in Updates \cup {"delete_message"})
        => /\ (queue' # queue => done[w] = Updates)
           /\ (pc[w] \in Updates /\ pc'[w] \notin Updates \cup {"delete_message"}
                 => queue' = queue)]_vars

\* C1 witness: a VALID order has been recorded in full and its message deleted.
C1_Witness ==
    \E m \in Msgs : IsValid(m) /\ queue[m] = "deleted" /\ redis.stats.total_revenue > 0

\* No worker is between receiving a message and finishing with it.
Quiescent == \A w \in Workers : pc[w] \notin InMessage

\* C2: whenever no worker is processing a message, every user's score in
\* daily:{date} equals total_spend of user:{user}:{date}.
C2_LeaderboardMatchesDailySpend ==
    Quiescent =>
        \A u \in Users, d \in OrderDates :
            (u \in DOMAIN redis.daily[d] \/ redis.udaily[<<u, d>>].total_spend # 0)
            => /\ u \in DOMAIN redis.daily[d]
               /\ redis.daily[d][u] = redis.udaily[<<u, d>>].total_spend


\* The key call r stores its union under is (still) the one it created.
OwnsKey(r, k) == k \in DOMAIN redis.temp /\ redis.temp[k].by = r

\* C3: once a get_top_users call has returned, with a response or with an error,
\* Redis holds no temporary union key created by that call.
C3_NoTempKeyAfterReturn ==
    \A r \in Readers :
        rpc[r] = "returned" => \A k \in DOMAIN redis.temp : ~OwnsKey(r, k)

\* The ranking a response carries.
Ranking(res) == [i \in 1..Len(res.top_users) |->
                    <<res.top_users[i].user_id, res.top_users[i].total_spend>>]

\* C4: a multi-day get_top_users call that runs concurrently with another one for the
\* same period and date answers with the ranking its own union held.
C4_ConcurrentCallsIsolated ==
    \A r \in Readers :
        (rpc[r] = "returned" /\ result[r].status = 200 /\ period(r) \in {"w", "m", "y"})
        => Ranking(result[r]) = alone[r]

\* C5: the loop exits only between poll cycles: a worker that has stopped has no
\* received message left unfinished.
C5_StopOnlyBetweenCycles ==
    \A w \in Workers : pc[w] = "stopped" => batch[w] = <<>>

\* Where the for loop goes after the current message.
NextIteration(w) == IF idx[w] + 1 <= Len(batch[w]) THEN "parse" ELSE "while"

\* An ordinary step of worker w: no injected failure, no interrupt.
Normal(w) == Acts(w) /\ faults' = faults

\* C6: for a message whose validation is INVALID the worker goes to the delete,
\* deletes the message from the queue and changes no Redis key.
C6_InvalidDroppedWithoutWrites ==
    [][\A w \in Workers :
        (Normal(w) /\ pc[w] \in {"validate", "delete_invalid"} /\ Verdict(w) = "INVALID")
        => /\ redis' = redis
           /\ (pc[w] = "validate" => pc'[w] = "delete_invalid" /\ queue' = queue)
           /\ (pc[w] = "delete_invalid" =>
                 /\ queue' = [queue EXCEPT ![msg(w)] = "deleted"]
                 /\ pc'[w] = NextIteration(w))]_vars

\* C6 witness: an INVALID message has been deleted.
C6_Witness ==
    \E m \in Msgs :
        /\ Payloads[body[m]].json
        /\ process_order(Payloads[body[m]], TRUE).status = "INVALID"
        /\ queue[m] = "deleted"

\* C7: when the body does not parse, the worker leaves the queue and Redis as they
\* are and goes on with the next message of the batch or the next poll.
C7_ParseFailureLeavesMessage ==
    [][\A w \in Workers :
        (Normal(w) /\ pc[w] = "parse" /\ Verdict(w) = "UNPARSED")
        => /\ queue' = queue
           /\ redis' = redis
           /\ running'[w]
           /\ pc'[w] = NextIteration(w)]_vars

\* No worker holds message m any more.
Released(m) == \A w \in Workers : ~InBatch(batch[w], m)

\* C7 witness: an unparsable message was handed out, is still undeleted, and the
\* worker that had it is back in its polling cycle.
C7_Witness ==
    \E m \in Msgs :
        /\ ~Payloads[body[m]].json
        /\ queue[m] = "inflight" /\ Released(m)
        /\ \E w \in Workers : pc[w] \in {"while", "receive"} /\ running[w]

\* The step of worker w raises an Exception inside the per-message try block.
Raises(w) ==
    /\ Acts(w)
    /\ sigint' = sigint
    /\ \/ pc[w] \in Updates \cup {"delete_message", "delete_invalid"} /\ faults' # faults
       \/ pc[w] = "validate" /\ Verdict(w) = "RAISES"
       \/ pc[w] = "split" /\ processed[w].order_timestamp.t # "str"

\* C8: an exception raised by validation, by a Redis call or by delete_message is
\* caught per message: the queue is left as it is, the worker keeps running and
\* the for loop goes on with the rest of the batch.
C8_MessageErrorIsContained ==
    [][\A w \in Workers :
        Raises(w)
        => /\ queue' = queue
           /\ running'[w]
           /\ pc'[w] = NextIteration(w)
           /\ (NextIteration(w) = "parse" => batch'[w] = batch[w] /\ idx'[w] = idx[w] + 1)]_vars

\* C8 witness: a Redis call failed part-way through a VALID order: the per-date hash
\* is written, the global stats are not, the message is undeleted and nobody is
\* processing anything.
C8_Witness ==
    /\ \A w \in Workers : batch[w] = <<>> /\ ~sigint[w] /\ pc[w] \in {"while", "receive"}
    /\ redis.stats.total_orders = 0
    /\ \E m \in Msgs :
        /\ IsValid(m) /\ queue[m] = "inflight"
        /\ redis.udaily[<<UserOf(m), D1>>].order_count > 0

\* C9: a failing receive_message sends the worker to the backoff sleep and from
\* there to the while test and the next poll; the worker leaves the loop, and
\* self.running is cleared, only after a KeyboardInterrupt.
C9_LoopSurvivesErrors ==
    [][\A w \in Workers :
        /\ (Acts(w) /\ sigint' = sigint /\ pc[w] = "receive" /\ faults' # faults
              => pc'[w] = "backoff" /\ running'[w])
        /\ (Acts(w) /\ sigint' = sigint /\ pc[w] = "backoff" => pc'[w] = "while" /\ running'[w])
        /\ (Acts(w) /\ sigint' = sigint /\ pc[w] = "while" /\ running[w] => pc'[w] = "receive")
        /\ (pc'[w] \in {"stopped", "killed"} => sigint'[w])
        /\ (~running'[w] => sigint'[w])]_vars

\* C9 witness: receive_message has failed and the worker sleeps, still running.
C9_Witness ==
    \E w \in Workers : pc[w] = "backoff" /\ running[w] /\ ~sigint[w]

\* The VALID messages whose processing ended with the delete.
Committed == {m \in Msgs : IsValid(m) /\ queue[m] = "deleted"}

RECURSIVE SumValues(_)
SumValues(S) ==
    IF S = {} THEN 0
    ELSE LET m == CHOOSE x \in S : TRUE IN ValueOf(m) + SumValues(S \ {m})

\* C10: when no worker is processing a message, every user:{u} hash holds the number
\* and the sum of that user's committed orders and global:stats the number and the
\* sum of all committed orders.
C10_CountersMatchCommittedOrders ==
    Quiescent =>
        /\ \A u \in Users :
            LET mine == {m \in Committed : UserOf(m) = u} IN
            /\ redis.user[u].order_count = Cardinality(mine)
            /\ redis.user[u].total_spend = SumValues(mine)
        /\ redis.stats.total_orders = Cardinality(Committed)
        /\ redis.stats.total_revenue = SumValues(Committed)

\* C10 witness: two orders of the same user are committed and no worker is busy.
C10_Witness ==
    /\ Quiescent
    /\ Cardinality(Committed) >= 2
    /\ \E u \in Users : Cardinality({m \in Committed : UserOf(m) = u}) >= 2

\* The date message m is recorded under.
DateOf(m) == Head(process_order(Payloads[body[m]], TRUE).order_timestamp.s)

\* C11: with a single worker and no failures, once the worker is done with its
\* messages, get_user_stats(U) gives the number and the sum of the orders recorded
\* for U, and daily:{D} holds U at the sum of U's orders of date D (and does not
\* hold a user without orders on D).
C11_SingleWorkerTotals ==
    Quiescent =>
        \A u \in Users :
            LET mine == {m \in Committed : UserOf(m) = u} IN
            /\ get_user_stats(u).order_count = Cardinality(mine)
            /\ get_user_stats(u).total_spend = SumValues(mine)
            /\ \A d \in OrderDates :
                 LET onday == {m \in mine : DateOf(m) = d} IN
                 IF onday = {} THEN u \notin DOMAIN redis.daily[d]
                 ELSE /\ u \in DOMAIN redis.daily[d]
                      /\ redis.daily[d][u] = SumValues(onday)

\* C11 witness: the single worker has recorded two orders of one user for one date.
C11_Witness ==
    /\ Quiescent
    /\ pc[2] = "start"
    /\ \E u \in Users, d \in OrderDates :
         Cardinality({m \in Committed : UserOf(m) = u /\ DateOf(m) = d}) >= 2

\* Message m carries an order the worker records: VALID, with a timestamp.
Recordable(m) ==
    /\ IsValid(m)
    /\ process_order(Payloads[body[m]], TRUE).order_timestamp.t = "str"

\* How often the messages of S were delivered, and the value delivered with them.
RECURSIVE DeliveredTimes(_)
DeliveredTimes(S) ==
    IF S = {} THEN 0
    ELSE LET m == CHOOSE x \in S : TRUE IN deliveries[m] + DeliveredTimes(S \ {m})

RECURSIVE DeliveredValue(_)
DeliveredValue(S) ==
    IF S = {} THEN 0
    ELSE LET m == CHOOSE x \in S : TRUE
         IN deliveries[m] * ValueOf(m) + DeliveredValue(S \ {m})

\* The hashes and the global statistics count every delivery of every order.
HashesCountEveryDelivery ==
    LET all == {m \in Msgs : Recordable(m)} IN
    /\ redis.stats.total_orders = DeliveredTimes(all)
    /\ redis.stats.total_revenue = DeliveredValue(all)
    /\ \A u \in Users :
         LET mine == {m \in all : UserOf(m) = u} IN
         /\ redis.user[u].order_count = DeliveredTimes(mine)
         /\ redis.user[u].total_spend = DeliveredValue(mine)
         /\ \A d \in OrderDates :
              LET onday == {m \in mine : DateOf(m) = d} IN
              /\ redis.udaily[<<u, d>>].order_count = DeliveredTimes(onday)
              /\ redis.udaily[<<u, d>>].total_spend = DeliveredValue(onday)

\* The leaderboard score of a user whose only order of the date is message m
\* holds that order once per delivery.
LeaderboardCountsEveryDelivery ==
    \A m \in Msgs :
        (/\ Recordable(m)
         /\ deliveries[m] > 0
         /\ \A o \in Msgs \ {m} :
              Recordable(o) => UserOf(o) # UserOf(m) \/ DateOf(o) # DateOf(m))
        => /\ UserOf(m) \in DOMAIN redis.daily[DateOf(m)]
           /\ redis.daily[DateOf(m)][UserOf(m)] = deliveries[m] * ValueOf(m)

\* C12: there is no deduplication: when no call fails, every delivery of a valid
\* order is processed to its delete, and once the workers are done every aggregate
\* (per-user-per-date hash, per-user hash, daily leaderboard score, global stats)
\* holds the order once per delivery.
C12_RedeliveryCountsAgain ==
    Quiescent => HashesCountEveryDelivery /\ LeaderboardCountsEveryDelivery

\* The hashes and the global statistics alone: this part holds under SpecRedeliver.
RedeliveryCountsInHashes == Quiescent => HashesCountEveryDelivery

\* Hash field f of every per-user, per-user-per-date hash is non-negative after the
\* step and not smaller than before it.
FieldMonotonic(f) ==
    /\ \A u \in Users :
         redis'.user[u][f] >= 0 /\ redis'.user[u][f] >= redis.user[u][f]
    /\ \A k \in Users \X OrderDates :
         redis'.udaily[k][f] >= 0 /\ redis'.udaily[k][f] >= redis.udaily[k][f]

\* The order counters never decrease: this part holds.
OrderCountsMonotonic ==
    [][/\ FieldMonotonic("order_count")
       /\ redis'.stats.total_orders >= redis.stats.total_orders]_vars

\* C13: order_count / total_orders and total_spend / total_revenue of every user
\* hash, user-and-date hash and of global:stats are never negative and never
\* decrease, whatever orders pass process_order.
C13_AggregatesMonotonic ==
    [][/\ FieldMonotonic("order_count")
       /\ FieldMonotonic("total_spend")
       /\ redis'.stats.total_orders >= redis.stats.total_orders
       /\ redis'.stats.total_revenue >= 0
       /\ redis'.stats.total_revenue >= redis.stats.total_revenue]_vars

\* The dates of the period call r asks for.
PeriodDates(r) ==
    LET ds == get_dates_for_period(period(r), Requests[req[r]].date).dates
    IN {ds[i] : i \in 1..Len(ds)}

\* What user u has on the leaderboards, and in the per-date hashes, of the dates D.
RECURSIVE ScoreOver(_, _)
ScoreOver(u, D) ==
    IF D = {} THEN 0
    ELSE LET d == CHOOSE x \in D : TRUE
         IN (IF u \in DOMAIN Daily(d) THEN Daily(d)[u] ELSE 0) + ScoreOver(u, D \ {d})

RECURSIVE CountOver(_, _)
CountOver(u, D) ==
    IF D = {} THEN 0
    ELSE LET d == CHOOSE x \in D : TRUE IN DailyCount(u, d) + CountOver(u, D \ {d})

\* C14: a get_top_users answer for a week, month or year, with nobody writing, lists
\* each user with total_spend equal to the sum of the user's daily leaderboard scores
\* over the dates of the period and order_count equal to the sum of the user's
\* per-date order_count over them, highest total_spend first.
C14_PeriodTotalsAndOrder ==
    \A r \in Readers :
        (rpc[r] = "returned" /\ result[r].status = 200 /\ period(r) \in {"w", "m", "y"})
        => LET out == result[r].top_users IN
           /\ \A i \in 1..Len(out) :
                /\ out[i].total_spend = ScoreOver(out[i].user_id, PeriodDates(r))
                /\ out[i].order_count = CountOver(out[i].user_id, PeriodDates(r))
           /\ \A i \in 1..(Len(out) - 1) : out[i].total_spend >= out[i + 1].total_spend

\* C14 witness: an answer for a period lists a user with orders on two dates of the
\* period.
C14_Witness ==
    \E r \in Readers :
        /\ rpc[r] = "returned" /\ result[r].status = 200 /\ period(r) \in {"w", "m", "y"}
        /\ Len(result[r].top_users) >= 1
        /\ \E i \in 1..Len(result[r].top_users) :
             /\ result[r].top_users[i].order_count = 2
             /\ Cardinality({d \in PeriodDates(r) :
                                 result[r].top_users[i].user_id \in DOMAIN Daily(d)}) = 2

\* The ranking call r is asked about: the leaderboard of the date, or the sum of the
\* leaderboards of the dates of the period.
AskedRanking(r) ==
    IF period(r) = "d" THEN Daily(Requests[req[r]].date)
    ELSE [u \in {x \in Users : \E d \in PeriodDates(r) : x \in DOMAIN Daily(d)} |->
             ScoreOver(u, PeriodDates(r))]

\* The k highest entries of ranking z (all of them when there are fewer).
Highest(z, k) ==
    LET all == SortDesc(z, DOMAIN z)
    IN SubSeq(all, 1, IF k < Len(all) THEN k ELSE Len(all))

\* C15: for every period and every n >= 0 a get_top_users answer has at most n
\* entries, and they are the n highest-spend users of the ranking (all of them when
\* the ranking has fewer than n); n = 0 gives no entries.
C15_AtMostNHighest ==
    \A r \in Readers :
        (rpc[r] = "returned" /\ result[r].status = 200 /\ n(r) >= 0)
        => /\ Len(result[r].top_users) <= n(r)
           /\ Ranking(result[r]) = Highest(AskedRanking(r), n(r))

\* process_order has been called on order_data.
Called == returned # NoResult

\* The three required fields of the order are present, non-blank and of the JSON
\* type the schema names (a string, a string, a number).
FieldViolated(o, f) ==
    LET v == FieldOf(o, f) IN
    \/ v.t \in {"absent", "null"}
    \/ v.t = "str" /\ Blank(v.s)
    \/ v.t # (IF f = "order_value" THEN "num" ELSE "str")

FieldsValid(o) == \A i \in 1..Len(RequiredFields) : ~FieldViolated(o, RequiredFields[i])

\* The item total, an item without a usable quantity or price counting as 0.
RECURSIVE ItemTotal(_)
ItemTotal(l) ==
    IF l = <<>> THEN 0
    ELSE (IF Head(l).quantity.t = "num" /\ Head(l).price_per_unit.t = "num"
          THEN Head(l).quantity.n * Head(l).price_per_unit.n ELSE 0)
         + ItemTotal(Tail(l))

TotalOf(o) == IF o.items.t = "list" THEN ItemTotal(o.items.l) ELSE 0

\* C16: for an order with valid required fields and an item total that can be
\* computed and is within one cent (0.01) of the reported order_value, process_order
\* returns VALID with order_value the reported value and computed_total the item
\* total, whatever correct_value is.
C16_WithinToleranceKeepsValue ==
    (/\ Called
     /\ FieldsValid(order_data)
     /\ ~TotalRaises(order_data)
     /\ Abs(TotalOf(order_data) - order_data.order_value.n) <= Tolerance)
    => /\ returned.status = "VALID"
       /\ returned.order_value = order_data.order_value.n
       /\ returned.computed_total = TotalOf(order_data)

\* The same for orders whose item total is exactly the reported value: this part
\* holds.
ExactTotalKeepsValue ==
    (/\ Called
     /\ FieldsValid(order_data)
     /\ ~TotalRaises(order_data)
     /\ TotalOf(order_data) = order_data.order_value.n)
    => /\ returned.status = "VALID"
       /\ returned.order_value = order_data.order_value.n
       /\ returned.computed_total = TotalOf(order_data)

\* C17: for an order with valid required fields whose item total differs from the
\* reported order_value by more than a cent: with correct_value the result is VALID
\* with order_value replaced by the item total, and without it the result is
\* INVALID with exactly one error, which names the reported and the computed value.
C17_OutsideToleranceCorrectsOrRejects ==
    (/\ Called
     /\ FieldsValid(order_data)
     /\ ~TotalRaises(order_data)
     /\ Abs(TotalOf(order_data) - order_data.order_value.n) > Tolerance)
    => IF correct_value
       THEN /\ returned.status = "VALID"
            /\ returned.order_value = TotalOf(order_data)
            /\ returned.computed_total = TotalOf(order_data)
       ELSE /\ returned.status = "INVALID"
            /\ returned.order_id = order_data.order_id
            /\ Len(returned.errors) = 1
            /\ returned.errors[1].kind = "Mismatch"
            /\ returned.errors[1].reported = order_data.order_value.n
            /\ returned.errors[1].computed = TotalOf(order_data)

\* C17 witness: an order reported at 100.02 with items worth 100.00 was rejected
\* for the mismatch.
C17_Witness ==
    /\ Called
    /\ ~correct_value
    /\ order_data.order_value = Num(10002)
    /\ returned.status = "INVALID"
    /\ returned.errors[1].kind = "Mismatch"
    /\ returned.errors[1].computed = 10000

\* The required fields the order violates.
Violations(o) == {f \in {"user_id", "order_id", "order_value"} : FieldViolated(o, f)}

\* The result rejects the order with exactly one error for each violated field,
\* naming it, and carries the supplied order_id, or "Unknown" without one.
RejectsFields(o, res) ==
    /\ res.status = "INVALID"
    /\ Len(res.errors) = Cardinality(Violations(o))
    /\ \A i \in 1..Len(res.errors) :
         res.errors[i].kind \in {"Missing", "Empty", "InvalidType"}
    /\ \A f \in Violations(o) :
         Cardinality({i \in 1..Len(res.errors) : res.errors[i].field = f}) = 1
    /\ res.order_id = (IF o.order_id = Absent THEN Str("Unknown") ELSE o.order_id)

\* C18: when user_id, order_id or order_value is missing, null, a blank string or
\* not of its type (string, string, number), process_order returns INVALID with
\* exactly one error per violated field, each naming its field, without any error
\* about the total, and with the supplied order_id or "Unknown".
C18_FieldErrorsReported ==
    (Called /\ Violations(order_data) # {}) => RejectsFields(order_data, returned)

\* The same for orders whose order_value is not a JSON boolean: this part holds.
FieldErrorsReportedUnlessBool ==
    (Called /\ Violations(order_data) # {} /\ order_data.order_value.t # "bool")
    => RejectsFields(order_data, returned)

\* C19: process_order never raises on a parsed order: it returns VALID or INVALID,
\* INVALID always with a non-empty error list, and an item without a usable
\* quantity or price_per_unit counts as 0 in computed_total.
C19_ValidationNeverRaises ==
    Called
    => /\ returned.status \in {"VALID", "INVALID"}
       /\ (returned.status = "INVALID" => returned.errors # <<>>)
       /\ (returned.status = "VALID" => returned.computed_total = TotalOf(order_data))

\* The same for orders whose items are a list (or absent) and whose items hold
\* numbers or lack the key: this part holds.
NeverRaisesOnUsableItems ==
    (Called /\ ~TotalRaises(order_data))
    => /\ returned.status \in {"VALID", "INVALID"}
       /\ (returned.status = "INVALID" => returned.errors # <<>>)
       /\ (returned.status = "VALID" => returned.computed_total = TotalOf(order_data))

\* get_dates_for_period has been called on date_query.
DatesCalled == date_list # NoResult

\* The day after a calendar date.
NextDay(d) ==
    IF d[3] < DaysInMonth(d[1], d[2]) THEN <<d[1], d[2], d[3] + 1>>
    ELSE IF d[2] < 12 THEN <<d[1], d[2] + 1, 1>>
    ELSE <<d[1] + 1, 1, 1>>

\* ds is ascending day by day: no gap, no duplicate.
Consecutive(ds) == \A i \in 1..(Len(ds) - 1) : ds[i + 1] = NextDay(ds[i])

\* ISO 8601: a date belongs to the ISO year and week of the Thursday of its
\* Monday-to-Sunday week; weeks are counted from the year's first Thursday.
IsoYearWeek(d) ==
    LET ord == Ymd2Ord(d[1], d[2], d[3])
        thursday == ord - ((ord + 6) % 7) + 3
        y == IF thursday <= DaysBeforeYear(d[1]) THEN d[1] - 1
             ELSE IF thursday > DaysBeforeYear(d[1] + 1) THEN d[1] + 1
             ELSE d[1]
    IN <<y, (thursday - DaysBeforeYear(y) - 1) \div 7 + 1>>

IsMonday(d) == (Ymd2Ord(d[1], d[2], d[3]) + 6) % 7 = 0

\* The ISO year y has a week w: 28 December always lies in the last one.
WeekExists(y, w) == w >= 1 /\ w <= IsoYearWeek(<<y, 12, 28>>)[2]

\* date_query names a period of the calendar.
PeriodExists ==
    CASE date_query.period = "w" -> WeekExists(date_query.date_str[1], date_query.date_str[2])
      [] date_query.period = "m" -> date_query.date_str[2] \in 1..12
      [] OTHER -> TRUE

\* date_list is exactly the dates of the period date_query names.
ExpandsPeriod ==
    LET q == date_query.date_str
        ds == date_list.dates
    IN /\ ~date_list.raised
       /\ CASE date_query.period = "d" -> ds = <<q>>
            [] date_query.period = "w" ->
                 /\ Len(ds) = 7
                 /\ IsMonday(ds[1])
                 /\ Consecutive(ds)
                 /\ \A i \in 1..7 : IsoYearWeek(ds[i]) = q
            [] date_query.period = "m" ->
                 /\ Len(ds) = DaysInMonth(q[1], q[2])
                 /\ Len(ds) = 29 <=> (q[2] = 2 /\ IsLeap(q[1]))
                 /\ \A i \in 1..Len(ds) : ds[i] = <<q[1], q[2], i>>
            [] date_query.period = "y" ->
                 /\ Len(ds) = IF IsLeap(q[1]) THEN 366 ELSE 365
                 /\ ds[1] = <<q[1], 1, 1>>
                 /\ ds[Len(ds)] = <<q[1], 12, 31>>
                 /\ Consecutive(ds)

\* C20: for a period d, w, m or y that exists, get_dates_for_period returns exactly
\* its calendar dates, ascending, without gaps or duplicates: the 7 dates from the
\* Monday to the Sunday of the ISO week, every date of the month (29 for a leap
\* February, December included), every date of the year (365 or 366), or the one
\* given date.
C20_ExpandsToCalendarDates ==
    (DatesCalled /\ date_query.period \in {"d", "w", "m", "y"} /\ PeriodExists)
    => ExpandsPeriod

\* The same for the periods that end before the last day datetime can hold
\* (9999-12-31): this part holds.
ExpandsBeforeLastYear ==
    (/\ DatesCalled
     /\ date_query.period \in {"d", "w", "m", "y"}
     /\ PeriodExists
     /\ date_query.date_str[1] < MAXYEAR)
    => ExpandsPeriod

\* A leap February, a December, a week 53 and a leap year have been expanded.
ExpandedInterestingPeriods ==
    /\ DatesCalled /\ ~date_list.raised
    /\ date_query \in {[period |-> "m", date_str |-> <<2024, 2>>],
                        [period |-> "m", date_str |-> <<2023, 12>>],
                        [period |-> "w", date_str |-> <<2020, 53>>],
                        [period |-> "y", date_str |-> <<2024>>]}

\* C21: a get_top_users call for a period outside d, w, m, y is answered as invalid
\* input (400), which the caller can tell from the 500 of a failing store.
C21_UnknownPeriodIsInvalidInput ==
    \A r \in Readers :
        (rpc[r] = "returned" /\ period(r) \notin {"d", "w", "m", "y"})
        => result[r].status = 400

\* get_dates_for_period returns the empty list for such a period: this part holds
\* under SpecDates.
UnknownPeriodExpandsEmpty ==
    (DatesCalled /\ date_query.period \notin {"d", "w", "m", "y"})
    => date_list = Returns(<<>>)

\* The call returns from the date expansion without a Redis call: this part holds
\* under SpecWeb.
UnknownPeriodTouchesNoStore ==
    [][\A r \in Readers :
        (rpc[r] = "dates" /\ rpc'[r] # rpc[r] /\ period(r) \notin {"d", "w", "m", "y"})
        => rpc'[r] = "returned" /\ redis' = redis]_vars

\* The order counts of all per-user hashes and of all per-user-per-date hashes.
RECURSIVE SumUserCounts(_)
SumUserCounts(U) ==
    IF U = {} THEN 0
    ELSE LET u == CHOOSE x \in U : TRUE
         IN redis.user[u].order_count + SumUserCounts(U \ {u})

RECURSIVE SumDailyCounts(_)
SumDailyCounts(K) ==
    IF K = {} THEN 0
    ELSE LET k == CHOOSE x \in K : TRUE
         IN redis.udaily[k].order_count + SumDailyCounts(K \ {k})

\* C22: in every reachable state (in the middle of an order, after a failed store
\* call, after redeliveries, with concurrent workers) global:stats.total_orders is
\* at most the sum of user:{u}.order_count, which is at most the sum of
\* user:{u}:{d}.order_count.
C22_CountsOrderedByWriteOrder ==
    /\ redis.stats.total_orders <= SumUserCounts(Users)
    /\ SumUserCounts(Users) <= SumDailyCounts(Users \X OrderDates)

\* C22 witness: a store call failed between the writes of one order and the workers
\* are idle: the three counts differ.
C22_Witness ==
    /\ Quiescent
    /\ faults > 0
    /\ redis.stats.total_orders < SumUserCounts(Users)
    /\ SumUserCounts(Users) < SumDailyCounts(Users \X OrderDates)

\* The message worker w is handling is a VALID order without order_timestamp.
Undated(w) ==
    /\ Verdict(w) = "VALID"
    /\ process_order(Payloads[body[msg(w)]], TRUE).order_timestamp = Absent

\* C23: for a message that validates as VALID but has no order_timestamp, the
\* worker goes from the validation to the date derivation, which fails: no Redis
\* key is changed, the message is not deleted, and the loop goes on, leaving the
\* message on the queue for redelivery.
C23_UndatedOrderLeftOnQueue ==
    [][\A w \in Workers :
        (Normal(w) /\ pc[w] \in {"validate", "split"} /\ Undated(w))
        => /\ redis' = redis
           /\ queue' = queue
           /\ (pc[w] = "validate" => pc'[w] = "split")
           /\ (pc[w] = "split" => pc'[w] = NextIteration(w))]_vars

\* C23 witness: an undated VALID order was handed out and given up: it is undeleted,
\* no worker holds it, and Redis is as it was before.
C23_Witness ==
    \E m \in Msgs :
        /\ IsValid(m) /\ ~Recordable(m)
        /\ queue[m] = "inflight" /\ Released(m)
        /\ faults = 0
        /\ redis = EmptyStore

====
